---- MODULE Spec2Model ----
(***************************************************************************)
(* response::Value of cppgraphqlgen (GraphQLResponse.cpp): the manually    *)
(* tagged union behind every GraphQL response, with its constructors, its  *)
(* copy and move operations and its kind-checked accessors.                *)
(*                                                                         *)
(* Representation.                                                         *)
(*  - A Value is a record with the members of the C++ struct: _type, the   *)
(*    five std::unique_ptr members _members, _map, _list, _string, _scalar *)
(*    and the members _boolean, _int, _float of the anonymous union.       *)
(*  - A std::unique_ptr<T> is a sequence of length at most one: <<>> is    *)
(*    the null pointer and <<x>> owns the object x.  Dereferencing <<>> is *)
(*    undefined behaviour: every such place in the code reads or writes    *)
(*    through the null address, and the model records the outcome "fault"  *)
(*    (the memory fault that ends the process; no action follows it).      *)
(*  - MapType is a sequence of <<name, Value>> pairs, ListType a sequence  *)
(*    of Values; the std::unordered_map<std::string, size_t> behind        *)
(*    _members is a set of <<name, position>> pairs, positions counted     *)
(*    from 0 as in the code.                                               *)
(*  - A union member that is not the active one is indeterminate and is    *)
(*    never read (every read is guarded by _type); the model keeps FALSE   *)
(*    or 0 there.  FloatType values are drawn from the integers.           *)
(*  - A moved-from std::vector is empty; a moved-from std::string is in a  *)
(*    valid but unspecified state, a choice between "" and the old text.   *)
(*  - outcome is how the last call ended: "ok", "logic_error" (the kind    *)
(*    check failed), "runtime_error", "out_of_range" or "fault".           *)
(***************************************************************************)
EXTENDS Integers, Sequences, FiniteSets, TLC

VARIABLES v, last, outcome, ret, appends

vars == <<v, last, outcome, ret, appends>>

(* The resolution of one selection set (see Resolution below). *)
VARIABLES selection, launched, finished, slot

rvars == <<selection, launched, finished, slot>>

(***************************************************************************)
(* Bounds of the exploration.  A step that builds objects (a constructor   *)
(* from data, emplace_back, set<ScalarType>) must leave at most            *)
(* MaxPlainNodes Value objects when every object is of a type in           *)
(* PlainTypes, and at most MaxNodes otherwise; a copy constructor is       *)
(* always explored.                                                        *)
(***************************************************************************)
MaxNodes == 3
MaxPlainNodes == 4

Slots == {1, 2}
Subjects == {1}
Temp == Cardinality(Slots) + 1
None == Temp + 1
Names == {"a", "b"}
StringInputs == {"x"}
BooleanInputs == {TRUE}
IntInputs == {1}
FloatInputs == {1}
ReserveCounts == {2}
IndexInputs == {0, 1}
PlainTypes == {"Null", "Int", "Map", "List"}

Types == {"Map", "List", "String", "Null", "Boolean", "Int", "Float", "EnumValue", "Scalar"}

IsNullPtr(p) == Len(p) = 0

(***************************************************************************)
(* Constructors.                                                           *)
(***************************************************************************)
NullValue ==
  [ _type |-> "Null", _members |-> <<>>, _map |-> <<>>, _list |-> <<>>,
    _string |-> <<>>, _boolean |-> FALSE, _int |-> 0, _float |-> 0,
    _scalar |-> <<>> ]

Value(type) ==
  [ _type |-> type,
    _members |-> IF type = "Map" THEN << {} >> ELSE <<>>,
    _map |-> IF type = "Map" THEN << <<>> >> ELSE <<>>,
    _list |-> IF type = "List" THEN << <<>> >> ELSE <<>>,
    _string |-> IF type \in {"String", "EnumValue"} THEN << "" >> ELSE <<>>,
    _boolean |-> FALSE,
    _int |-> 0,
    _float |-> 0,
    _scalar |-> IF type = "Scalar" THEN << NullValue >> ELSE <<>> ]

ValueStringType(value) ==
  [ NullValue EXCEPT !._type = "String", !._string = << value >> ]

ValueBooleanType(value) ==
  [ NullValue EXCEPT !._type = "Boolean", !._boolean = value ]

ValueIntType(value) ==
  [ NullValue EXCEPT !._type = "Int", !._int = value ]

ValueFloatType(value) ==
  [ NullValue EXCEPT !._type = "Float", !._float = value ]

(***************************************************************************)
(* Value::Value(Value&& other): the new value takes other's _type and its  *)
(* five pointers and copies the active union member; other keeps its       *)
(* _type and its union, and its pointers are null.                         *)
(***************************************************************************)
ValueMove(other) ==
  [ new |->
      [ _type |-> other._type,
        _members |-> other._members,
        _map |-> other._map,
        _list |-> other._list,
        _string |-> other._string,
        _boolean |-> IF other._type = "Boolean" THEN other._boolean ELSE FALSE,
        _int |-> IF other._type = "Int" THEN other._int ELSE 0,
        _float |-> IF other._type = "Float" THEN other._float ELSE 0,
        _scalar |-> other._scalar ],
    other |->
      [ other EXCEPT !._members = <<>>, !._map = <<>>, !._list = <<>>,
                     !._string = <<>>, !._scalar = <<>> ] ]

(***************************************************************************)
(* Value::Value(const Value& other).  CopyFaults: the constructor          *)
(* dereferences a null pointer, in other or in a value nested in it.       *)
(***************************************************************************)
RECURSIVE CopyFaults(_)
CopyFaults(other) ==
  CASE other._type = "Map" ->
         \/ IsNullPtr(other._members)
         \/ IsNullPtr(other._map)
         \/ \E i \in 1..Len(other._map[1]) : CopyFaults(other._map[1][i][2])
    [] other._type = "List" ->
         \/ IsNullPtr(other._list)
         \/ \E i \in 1..Len(other._list[1]) : CopyFaults(other._list[1][i])
    [] other._type \in {"String", "EnumValue"} -> IsNullPtr(other._string)
    [] other._type = "Scalar" ->
         \/ IsNullPtr(other._scalar)
         \/ CopyFaults(other._scalar[1])
    [] OTHER -> FALSE

RECURSIVE ValueCopy(_)
ValueCopy(other) ==
  CASE other._type = "Map" ->
         [ NullValue EXCEPT
             !._type = "Map",
             !._members = << other._members[1] >>,
             !._map = << [ i \in 1..Len(other._map[1]) |->
                             << other._map[1][i][1], ValueCopy(other._map[1][i][2]) >> ] >> ]
    [] other._type = "List" ->
         [ NullValue EXCEPT
             !._type = "List",
             !._list = << [ i \in 1..Len(other._list[1]) |-> ValueCopy(other._list[1][i]) ] >> ]
    [] other._type \in {"String", "EnumValue"} ->
         [ NullValue EXCEPT !._type = other._type, !._string = << other._string[1] >> ]
    [] other._type = "Boolean" ->
         [ NullValue EXCEPT !._type = "Boolean", !._boolean = other._boolean ]
    [] other._type = "Int" ->
         [ NullValue EXCEPT !._type = "Int", !._int = other._int ]
    [] other._type = "Float" ->
         [ NullValue EXCEPT !._type = "Float", !._float = other._float ]
    [] other._type = "Scalar" ->
         [ NullValue EXCEPT !._type = "Scalar", !._scalar = << ValueCopy(other._scalar[1]) >> ]
    [] OTHER -> [ NullValue EXCEPT !._type = other._type ]

(***************************************************************************)
(* Value::operator=(Value&& rhs) for two distinct objects: rhs is left     *)
(* with _type Null.  Both _type members are written through                *)
(* const_cast<Type&>; the stores are performed and every later call reads  *)
(* the stored kind.  The union members that do not belong to an object's   *)
(* _type are indeterminate and are kept at FALSE and 0.                    *)
(***************************************************************************)
(* A move assignment that leaves rhs its _type, as Value(Value&&) does. *)
OperatorAssignKeepsType(self, rhs) ==
  [ self |->
      [ _type |-> rhs._type,
        _members |-> rhs._members,
        _map |-> rhs._map,
        _list |-> rhs._list,
        _string |-> rhs._string,
        _boolean |-> IF rhs._type = "Boolean" THEN rhs._boolean ELSE FALSE,
        _int |-> IF rhs._type = "Int" THEN rhs._int ELSE 0,
        _float |-> IF rhs._type = "Float" THEN rhs._float ELSE 0,
        _scalar |-> rhs._scalar ],
    rhs |->
      [ rhs EXCEPT !._members = <<>>, !._map = <<>>, !._list = <<>>,
                   !._string = <<>>, !._scalar = <<>> ] ]

OperatorAssign(self, rhs) ==
  [ self |->
      [ _type |-> rhs._type,
        _members |-> rhs._members,
        _map |-> rhs._map,
        _list |-> rhs._list,
        _string |-> rhs._string,
        _boolean |-> IF rhs._type = "Boolean" THEN rhs._boolean ELSE FALSE,
        _int |-> IF rhs._type = "Int" THEN rhs._int ELSE 0,
        _float |-> IF rhs._type = "Float" THEN rhs._float ELSE 0,
        _scalar |-> rhs._scalar ],
    rhs |->
      [ rhs EXCEPT !._type = "Null", !._members = <<>>, !._map = <<>>,
                   !._list = <<>>, !._string = <<>>, !._scalar = <<>>,
                   !._boolean = FALSE, !._int = 0, !._float = 0 ] ]

(* Value::type *)
type(self) == self._type

(***************************************************************************)
(* Methods.  Each returns a record: outcome, self (the object after the    *)
(* call), ret (a sequence holding the returned value, <<>> when the call   *)
(* returns nothing or does not return) and, for the methods that take a    *)
(* Value&&, value (the argument after the call).                           *)
(***************************************************************************)
Done(self, r) == [ outcome |-> "ok", self |-> self, ret |-> r ]
Throw(self, what) == [ outcome |-> what, self |-> self, ret |-> <<>> ]
Fault(self) == [ outcome |-> "fault", self |-> self, ret |-> <<>> ]

reserve(self, count) ==
  CASE self._type = "Map" ->
         IF IsNullPtr(self._members) \/ IsNullPtr(self._map)
         THEN Fault(self) ELSE Done(self, <<>>)
    [] self._type = "List" ->
         IF IsNullPtr(self._list) THEN Fault(self) ELSE Done(self, <<>>)
    [] OTHER -> Throw(self, "logic_error")

size(self) ==
  CASE self._type = "Map" ->
         IF IsNullPtr(self._map) THEN Fault(self)
         ELSE Done(self, << Len(self._map[1]) >>)
    [] self._type = "List" ->
         IF IsNullPtr(self._list) THEN Fault(self)
         ELSE Done(self, << Len(self._list[1]) >>)
    [] OTHER -> Throw(self, "logic_error")

(* std::unordered_map::find, as the set of entries stored under the key:   *)
(* empty is cend().                                                        *)
MembersFind(members, name) == { e \in members : e[1] = name }

(* std::unordered_map::insert: an existing key is left as it is. *)
MembersInsert(members, name, pos) ==
  IF MembersFind(members, name) = {} THEN members \cup { << name, pos >> } ELSE members

(* std::vector::emplace_back may reallocate.  Value's move constructor is  *)
(* not noexcept, so the elements are then copy-constructed into the new    *)
(* storage; a copy that dereferences a null pointer does so only when the  *)
(* vector happens to grow.                                                 *)
GrowFaults(values) == \E i \in 1..Len(values) : CopyFaults(values[i])

(* An emplace_back(name, value) that moves name into the index before it   *)
(* builds the entry from it: the entry gets what is left of the string.    *)
emplace_back_name_moved(self, name, value, grow) ==
  IF self._type # "Map"
  THEN Throw(self, "logic_error") @@ [ value |-> value ]
  ELSE IF IsNullPtr(self._members)
  THEN Fault(self) @@ [ value |-> value ]
  ELSE IF MembersFind(self._members[1], name) # {}
  THEN Throw(self, "runtime_error") @@ [ value |-> value ]
  ELSE IF IsNullPtr(self._map)
  THEN Fault(self) @@ [ value |-> value ]
  ELSE IF grow /\ GrowFaults([ i \in 1..Len(self._map[1]) |-> self._map[1][i][2] ])
  THEN Fault(self) @@ [ value |-> value ]
  ELSE
    LET pair == ValueMove(value)
        element == ValueMove(pair.new)
    IN  Done([ self EXCEPT
                 !._members = << MembersInsert(self._members[1], name, Len(self._map[1])) >>,
                 !._map = << Append(self._map[1], << "", element.new >>) >> ],
             <<>>)
        @@ [ value |-> pair.other ]

(* An emplace_back(name, value) without the test for a member of that      *)
(* name.                                                                   *)
emplace_back_name_unchecked(self, name, value, grow) ==
  IF self._type # "Map"
  THEN Throw(self, "logic_error") @@ [ value |-> value ]
  ELSE IF IsNullPtr(self._members) \/ IsNullPtr(self._map)
  THEN Fault(self) @@ [ value |-> value ]
  ELSE IF grow /\ GrowFaults([ i \in 1..Len(self._map[1]) |-> self._map[1][i][2] ])
  THEN Fault(self) @@ [ value |-> value ]
  ELSE
    LET pair == ValueMove(value)
        element == ValueMove(pair.new)
    IN  Done([ self EXCEPT
                 !._members = << MembersInsert(self._members[1], name, Len(self._map[1])) >>,
                 !._map = << Append(self._map[1], << name, element.new >>) >> ],
             <<>>)
        @@ [ value |-> pair.other ]

(* An emplace_back(name, value) that puts the new entry in front of the    *)
(* others.                                                                 *)
emplace_back_name_front(self, name, value, grow) ==
  IF self._type # "Map"
  THEN Throw(self, "logic_error") @@ [ value |-> value ]
  ELSE IF IsNullPtr(self._members)
  THEN Fault(self) @@ [ value |-> value ]
  ELSE IF MembersFind(self._members[1], name) # {}
  THEN Throw(self, "runtime_error") @@ [ value |-> value ]
  ELSE IF IsNullPtr(self._map)
  THEN Fault(self) @@ [ value |-> value ]
  ELSE IF grow /\ GrowFaults([ i \in 1..Len(self._map[1]) |-> self._map[1][i][2] ])
  THEN Fault(self) @@ [ value |-> value ]
  ELSE
    LET pair == ValueMove(value)
        element == ValueMove(pair.new)
    IN  Done([ self EXCEPT
                 !._members = << MembersInsert(self._members[1], name, Len(self._map[1])) >>,
                 !._map = << << << name, element.new >> >> \o self._map[1] >> ],
             <<>>)
        @@ [ value |-> pair.other ]

(***************************************************************************)
(* Value::emplace_back(std::string&& name, Value&& value).  std::make_pair *)
(* move-constructs the pair's Value from value and the vector              *)
(* move-constructs its element from the pair.  grow is whether the vector  *)
(* reallocates.                                                            *)
(***************************************************************************)
emplace_back_name(self, name, value, grow) ==
  IF self._type # "Map"
  THEN Throw(self, "logic_error") @@ [ value |-> value ]
  ELSE IF IsNullPtr(self._members)
  THEN Fault(self) @@ [ value |-> value ]
  ELSE IF MembersFind(self._members[1], name) # {}
  THEN Throw(self, "runtime_error") @@ [ value |-> value ]
  ELSE IF IsNullPtr(self._map)
  THEN Fault(self) @@ [ value |-> value ]
  ELSE IF grow /\ GrowFaults([ i \in 1..Len(self._map[1]) |-> self._map[1][i][2] ])
  THEN Fault(self) @@ [ value |-> value ]
  ELSE
    LET pair == ValueMove(value)
        element == ValueMove(pair.new)
    IN  Done([ self EXCEPT
                 !._members = << MembersInsert(self._members[1], name, Len(self._map[1])) >>,
                 !._map = << Append(self._map[1], << name, element.new >>) >> ],
             <<>>)
        @@ [ value |-> pair.other ]

(***************************************************************************)
(* Value::find.  The returned iterator is its offset from cbegin();        *)
(* the offset of cend() is the size of the vector.                         *)
(***************************************************************************)
find(self, name) ==
  IF self._type # "Map"
  THEN Throw(self, "logic_error")
  ELSE IF IsNullPtr(self._members) \/ IsNullPtr(self._map)
  THEN Fault(self)
  ELSE
    LET itr == MembersFind(self._members[1], name)
    IN  IF itr = {}
        THEN Done(self, << Len(self._map[1]) >>)
        ELSE Done(self, << (CHOOSE e \in itr : TRUE)[2] >>)

(* Value::operator[](const std::string& name) *)
operator_index_name(self, name) ==
  LET itr == find(self, name)
  IN  IF itr.outcome # "ok"
      THEN itr
      ELSE IF itr.ret[1] = Len(self._map[1])
      THEN Throw(self, "runtime_error")
      ELSE IF itr.ret[1] > Len(self._map[1])
      THEN Fault(self)
      ELSE Done(self, << self._map[1][itr.ret[1] + 1][2] >>)

(* Value::emplace_back(Value&& value) *)
emplace_back_value(self, value, grow) ==
  IF self._type # "List"
  THEN Throw(self, "logic_error") @@ [ value |-> value ]
  ELSE IF IsNullPtr(self._list)
  THEN Fault(self) @@ [ value |-> value ]
  ELSE IF grow /\ GrowFaults(self._list[1])
  THEN Fault(self) @@ [ value |-> value ]
  ELSE
    LET element == ValueMove(value)
    IN  Done([ self EXCEPT !._list = << Append(self._list[1], element.new) >> ], <<>>)
        @@ [ value |-> element.other ]

(* Value::operator[](size_t index) *)
operator_index_pos(self, index) ==
  IF self._type # "List"
  THEN Throw(self, "logic_error")
  ELSE IF IsNullPtr(self._list)
  THEN Fault(self)
  ELSE IF index >= Len(self._list[1])
  THEN Throw(self, "out_of_range")
  ELSE Done(self, << self._list[1][index + 1] >>)

(***************************************************************************)
(* Value::set<T>.  set<ScalarType> move-assigns the nested value from the  *)
(* argument, which is left as operator= leaves its source.                 *)
(***************************************************************************)
(* A set<StringType> that makes the value a String. *)
set_StringType_asString(self, value) ==
  IF self._type # "String" /\ self._type # "EnumValue"
  THEN Throw(self, "logic_error")
  ELSE IF IsNullPtr(self._string)
  THEN Fault(self)
  ELSE Done([ self EXCEPT !._type = "String", !._string = << value >> ], <<>>)

set_StringType(self, value) ==
  IF self._type # "String" /\ self._type # "EnumValue"
  THEN Throw(self, "logic_error")
  ELSE IF IsNullPtr(self._string)
  THEN Fault(self)
  ELSE Done([ self EXCEPT !._string = << value >> ], <<>>)

set_BooleanType(self, value) ==
  IF self._type # "Boolean"
  THEN Throw(self, "logic_error")
  ELSE Done([ self EXCEPT !._boolean = value ], <<>>)

(* A set<IntType> without the test of _type. *)
set_IntType_unchecked(self, value) ==
  Done([ self EXCEPT !._int = value ], <<>>)

set_IntType(self, value) ==
  IF self._type # "Int"
  THEN Throw(self, "logic_error")
  ELSE Done([ self EXCEPT !._int = value ], <<>>)

set_FloatType(self, value) ==
  IF self._type # "Float"
  THEN Throw(self, "logic_error")
  ELSE Done([ self EXCEPT !._float = value ], <<>>)

set_ScalarType(self, value) ==
  IF self._type # "Scalar"
  THEN Throw(self, "logic_error") @@ [ value |-> value ]
  ELSE IF IsNullPtr(self._scalar)
  THEN Fault(self) @@ [ value |-> value ]
  ELSE
    LET assigned == OperatorAssign(self._scalar[1], value)
    IN  Done([ self EXCEPT !._scalar = << assigned.self >> ], <<>>)
        @@ [ value |-> assigned.rhs ]

(***************************************************************************)
(* Value::get<T>.  The reference accessors return the referenced object.   *)
(***************************************************************************)
get_MapType(self) ==
  IF self._type # "Map"
  THEN Throw(self, "logic_error")
  ELSE IF IsNullPtr(self._map)
  THEN Fault(self)
  ELSE Done(self, << self._map[1] >>)

get_ListType(self) ==
  IF self._type # "List"
  THEN Throw(self, "logic_error")
  ELSE IF IsNullPtr(self._list)
  THEN Fault(self)
  ELSE Done(self, << self._list[1] >>)

get_StringType(self) ==
  IF self._type # "String" /\ self._type # "EnumValue"
  THEN Throw(self, "logic_error")
  ELSE IF IsNullPtr(self._string)
  THEN Fault(self)
  ELSE Done(self, << self._string[1] >>)

get_BooleanType(self) ==
  IF self._type # "Boolean"
  THEN Throw(self, "logic_error")
  ELSE Done(self, << self._boolean >>)

get_IntType(self) ==
  IF self._type # "Int"
  THEN Throw(self, "logic_error")
  ELSE Done(self, << self._int >>)

get_FloatType(self) ==
  IF self._type # "Float"
  THEN Throw(self, "logic_error")
  ELSE Done(self, << self._float >>)

get_ScalarType(self) ==
  IF self._type # "Scalar"
  THEN Throw(self, "logic_error")
  ELSE IF IsNullPtr(self._scalar)
  THEN Fault(self)
  ELSE Done(self, << self._scalar[1] >>)

(***************************************************************************)
(* Value::release<T>.  The result is move-constructed from the payload:    *)
(* the vector left behind is empty, the string left behind is left (one of *)
(* the texts a moved-from string may hold), the nested value left behind   *)
(* is what Value(Value&&) leaves of its source.                            *)
(***************************************************************************)
(* A release<MapType> that does not clear the index. *)
release_MapType_keeps_index(self) ==
  IF self._type # "Map"
  THEN Throw(self, "logic_error")
  ELSE IF IsNullPtr(self._map) \/ IsNullPtr(self._members)
  THEN Fault(self)
  ELSE Done([ self EXCEPT !._map = << <<>> >> ], << self._map[1] >>)

(* A release<MapType> that copies the vector out instead of moving it. *)
release_MapType_copies(self) ==
  IF self._type # "Map"
  THEN Throw(self, "logic_error")
  ELSE IF IsNullPtr(self._map) \/ IsNullPtr(self._members)
  THEN Fault(self)
  ELSE Done([ self EXCEPT !._members = << {} >> ], << self._map[1] >>)

release_MapType(self) ==
  IF self._type # "Map"
  THEN Throw(self, "logic_error")
  ELSE IF IsNullPtr(self._map) \/ IsNullPtr(self._members)
  THEN Fault(self)
  ELSE Done([ self EXCEPT !._map = << <<>> >>, !._members = << {} >> ], << self._map[1] >>)

(* A release<ListType> that returns the vector it has moved from. *)
release_ListType_moved(self) ==
  IF self._type # "List"
  THEN Throw(self, "logic_error")
  ELSE IF IsNullPtr(self._list)
  THEN Fault(self)
  ELSE Done([ self EXCEPT !._list = << <<>> >> ], << <<>> >>)

release_ListType(self) ==
  IF self._type # "List"
  THEN Throw(self, "logic_error")
  ELSE IF IsNullPtr(self._list)
  THEN Fault(self)
  ELSE Done([ self EXCEPT !._list = << <<>> >> ], << self._list[1] >>)

MovedFromString(old) == { "", old }

release_StringType(self, left) ==
  IF self._type # "String" /\ self._type # "EnumValue"
  THEN Throw(self, "logic_error")
  ELSE IF IsNullPtr(self._string)
  THEN Fault(self)
  ELSE Done([ self EXCEPT !._string = << left >> ], << self._string[1] >>)

release_ScalarType(self) ==
  IF self._type # "Scalar"
  THEN Throw(self, "logic_error")
  ELSE IF IsNullPtr(self._scalar)
  THEN Fault(self)
  ELSE
    LET result == ValueMove(self._scalar[1])
    IN  Done([ self EXCEPT !._scalar = << result.other >> ], << result.new >>)

(***************************************************************************)
(* The program: the Value objects held in Slots, each default-constructed  *)
(* (Value(), of type Null) and then driven through the constructors, the   *)
(* move assignment and the non-const methods; the const methods are the    *)
(* operators above.  The methods are called on the object of a slot in     *)
(* Subjects; the other slot holds the second object of a copy or a move    *)
(* and the Value&& arguments, which may also be temporaries.  A Value&& is *)
(* never the object the method is called on, and an object is not          *)
(* move-assigned to itself.  last names the call just made (None where it  *)
(* has no such object), ret what it returned.                              *)
(*   appends[s]  the (name, content) pairs appended successfully to build  *)
(*               the entries the object of slot s now owns                 *)
(***************************************************************************)
TempValues == { ValueIntType(1) }

RECURSIVE Nodes(_)
RECURSIVE NodesOf(_, _)
NodesOf(values, n) ==
  IF n = 0 THEN 0 ELSE Nodes(values[n]) + NodesOf(values, n - 1)

Nodes(value) ==
  1 + (IF IsNullPtr(value._map) THEN 0
       ELSE NodesOf([ i \in 1..Len(value._map[1]) |-> value._map[1][i][2] ],
                    Len(value._map[1])))
    + (IF IsNullPtr(value._list) THEN 0
       ELSE NodesOf(value._list[1], Len(value._list[1])))
    + (IF IsNullPtr(value._scalar) THEN 0 ELSE Nodes(value._scalar[1]))

TotalNodes(values) ==
  NodesOf([ i \in 1..Cardinality(Slots) |-> values[i] ], Cardinality(Slots))

RECURSIVE Plain(_)
Plain(value) ==
  /\ value._type \in PlainTypes
  /\ IsNullPtr(value._string)
  /\ IsNullPtr(value._map) \/ \A i \in 1..Len(value._map[1]) : Plain(value._map[1][i][2])
  /\ IsNullPtr(value._list) \/ \A i \in 1..Len(value._list[1]) : Plain(value._list[1][i])
  /\ IsNullPtr(value._scalar) \/ Plain(value._scalar[1])

Within(values) ==
  TotalNodes(values) <= (IF \A s \in Slots : Plain(values[s]) THEN MaxPlainNodes ELSE MaxNodes)

(* The kind and the payload of that kind, at every depth; the payload is   *)
(* <<>> where the pointer to it is null.                                   *)
RECURSIVE Content(_)
Content(value) ==
  CASE value._type = "Map" ->
         [ type |-> "Map",
           payload |-> IF IsNullPtr(value._map) THEN <<>>
                       ELSE << [ i \in 1..Len(value._map[1]) |->
                                   << value._map[1][i][1], Content(value._map[1][i][2]) >> ] >> ]
    [] value._type = "List" ->
         [ type |-> "List",
           payload |-> IF IsNullPtr(value._list) THEN <<>>
                       ELSE << [ i \in 1..Len(value._list[1]) |-> Content(value._list[1][i]) ] >> ]
    [] value._type \in {"String", "EnumValue"} ->
         [ type |-> value._type, payload |-> value._string ]
    [] value._type = "Boolean" -> [ type |-> "Boolean", payload |-> << value._boolean >> ]
    [] value._type = "Int" -> [ type |-> "Int", payload |-> << value._int >> ]
    [] value._type = "Float" -> [ type |-> "Float", payload |-> << value._float >> ]
    [] value._type = "Scalar" ->
         [ type |-> "Scalar",
           payload |-> IF IsNullPtr(value._scalar) THEN <<>>
                       ELSE << Content(value._scalar[1]) >> ]
    [] OTHER -> [ type |-> value._type, payload |-> <<>> ]

Call(op, self, arg) == [ op |-> op, self |-> self, arg |-> arg ]

Running == outcome # "fault"

Init ==
  /\ v = [ s \in Slots |-> Value("Null") ]
  /\ last = Call("Value()", None, None)
  /\ outcome = "ok"
  /\ ret = <<>>
  /\ appends = [ s \in Slots |-> <<>> ]

(* A call that leaves the objects values. *)
Step(call, r, values) ==
  /\ Running
  /\ last' = call
  /\ outcome' = r.outcome
  /\ ret' = r.ret
  /\ v' = values
  /\ UNCHANGED rvars

(* A new object in slot s, built from data. *)
Construct(s, call, value) ==
  /\ Within([ v EXCEPT ![s] = value ])
  /\ Step(call, Done(value, <<>>), [ v EXCEPT ![s] = value ])
  /\ appends' = [ appends EXCEPT ![s] = <<>> ]

ConstructType(s, t) == Construct(s, Call("Value(Type)", s, None), Value(t))

ConstructString(s, value) ==
  Construct(s, Call("Value(StringType)", s, None), ValueStringType(value))

ConstructBoolean(s, value) ==
  Construct(s, Call("Value(BooleanType)", s, None), ValueBooleanType(value))

ConstructInt(s, value) ==
  Construct(s, Call("Value(IntType)", s, None), ValueIntType(value))

ConstructFloat(s, value) ==
  Construct(s, Call("Value(FloatType)", s, None), ValueFloatType(value))

(* Value d(std::move(s)): a new object in slot d. *)
MoveConstruct(d, s) ==
  /\ d # s
  /\ LET moved == ValueMove(v[s])
     IN  Step(Call("Value(Value&&)", d, s), Done(moved.new, <<>>),
              [ v EXCEPT ![d] = moved.new, ![s] = moved.other ])
  /\ appends' = [ appends EXCEPT ![d] = appends[s], ![s] = <<>> ]

(* Value d(s): a new object in slot d. *)
CopyConstruct(d, s) ==
  /\ d # s
  /\ IF CopyFaults(v[s])
     THEN /\ Step(Call("Value(const Value&)", d, s), Fault(v[d]), v)
          /\ UNCHANGED appends
     ELSE /\ Step(Call("Value(const Value&)", d, s), Done(ValueCopy(v[s]), <<>>),
                  [ v EXCEPT ![d] = ValueCopy(v[s]) ])
          /\ appends' = [ appends EXCEPT ![d] = appends[s] ]
        
(* d = std::move(s), for two distinct objects. *)
MoveAssign(d, s) ==
  /\ d # s
  /\ LET assigned == OperatorAssign(v[d], v[s])
     IN  Step(Call("operator=", d, s), Done(assigned.self, <<>>),
              [ v EXCEPT ![d] = assigned.self, ![s] = assigned.rhs ])
  /\ appends' = [ appends EXCEPT ![d] = appends[s], ![s] = <<>> ]

(* A call on the object of slot s that takes no Value&&. *)
Mutate(s, call, r) ==
  /\ Step(call, r, [ v EXCEPT ![s] = r.self ])
  /\ UNCHANGED appends

Reserve(s, count) == Mutate(s, Call("reserve", s, None), reserve(v[s], count))

(* The objects after a call on slot d that took arg as its Value&&. *)
After(d, arg, r) ==
  IF arg = Temp THEN [ v EXCEPT ![d] = r.self ]
  ELSE [ v EXCEPT ![d] = r.self, ![arg] = r.value ]

(* The entries the objects own after arg was the Value&& of a call. *)
Taken(arg, r) ==
  IF arg = Temp \/ r.outcome # "ok" THEN appends
  ELSE [ appends EXCEPT ![arg] = <<>> ]

(* d.emplace_back(name, std::move(arg)) *)
EmplaceBackName(d, name, arg, value, grow) ==
  /\ arg # d
  /\ arg # Temp => value = v[arg]
  /\ LET r == emplace_back_name(v[d], name, value, grow)
     IN  /\ Within(After(d, arg, r))
         /\ Step(Call("emplace_back(name)", d, arg), r, After(d, arg, r))
         /\ appends' =
              IF r.outcome = "ok"
              THEN [ Taken(arg, r) EXCEPT
                       ![d] = Append(appends[d], << name, Content(value) >>) ]
              ELSE appends

(* d.emplace_back(std::move(arg)) *)
EmplaceBackValue(d, arg, value, grow) ==
  /\ arg # d
  /\ arg # Temp => value = v[arg]
  /\ LET r == emplace_back_value(v[d], value, grow)
     IN  /\ Within(After(d, arg, r))
         /\ Step(Call("emplace_back(value)", d, arg), r, After(d, arg, r))
         /\ appends' = Taken(arg, r)

SetString(s, value) == Mutate(s, Call("set<StringType>", s, None), set_StringType(v[s], value))

SetBoolean(s, value) == Mutate(s, Call("set<BooleanType>", s, None), set_BooleanType(v[s], value))

SetInt(s, value) == Mutate(s, Call("set<IntType>", s, None), set_IntType(v[s], value))

SetFloat(s, value) == Mutate(s, Call("set<FloatType>", s, None), set_FloatType(v[s], value))

(* d.set<ScalarType>(std::move(arg)) *)
SetScalar(d, arg, value) ==
  /\ arg # d
  /\ arg # Temp => value = v[arg]
  /\ LET r == set_ScalarType(v[d], value)
     IN  /\ Within(After(d, arg, r))
         /\ Step(Call("set<ScalarType>", d, arg), r, After(d, arg, r))
         /\ appends' = Taken(arg, r)

ReleaseMap(s) ==
  /\ LET r == release_MapType(v[s])
     IN  /\ Step(Call("release<MapType>", s, None), r, [ v EXCEPT ![s] = r.self ])
         /\ appends' = IF r.outcome = "ok" THEN [ appends EXCEPT ![s] = <<>> ] ELSE appends

ReleaseList(s) == Mutate(s, Call("release<ListType>", s, None), release_ListType(v[s]))

ReleaseString(s) ==
  \E left \in (IF IsNullPtr(v[s]._string) THEN {""} ELSE MovedFromString(v[s]._string[1])) :
    Mutate(s, Call("release<StringType>", s, None), release_StringType(v[s], left))

ReleaseScalar(s) == Mutate(s, Call("release<ScalarType>", s, None), release_ScalarType(v[s]))

Next ==
  \/ \E s \in Slots, t \in Types : ConstructType(s, t)
  \/ \E s \in Slots, value \in StringInputs : ConstructString(s, value)
  \/ \E s \in Slots, value \in BooleanInputs : ConstructBoolean(s, value)
  \/ \E s \in Slots, value \in IntInputs : ConstructInt(s, value)
  \/ \E s \in Slots, value \in FloatInputs : ConstructFloat(s, value)
  \/ \E d \in Slots, s \in Slots : MoveConstruct(d, s)
  \/ \E d \in Slots, s \in Slots : CopyConstruct(d, s)
  \/ \E d \in Slots, s \in Slots : MoveAssign(d, s)
  \/ \E s \in Subjects, count \in ReserveCounts : Reserve(s, count)
  \/ \E d \in Subjects, name \in Names, arg \in Slots, grow \in BOOLEAN :
       EmplaceBackName(d, name, arg, v[arg], grow)
  \/ \E d \in Subjects, name \in Names, value \in TempValues, grow \in BOOLEAN :
       EmplaceBackName(d, name, Temp, value, grow)
  \/ \E d \in Subjects, arg \in Slots, grow \in BOOLEAN : EmplaceBackValue(d, arg, v[arg], grow)
  \/ \E d \in Subjects, value \in TempValues, grow \in BOOLEAN :
       EmplaceBackValue(d, Temp, value, grow)
  \/ \E s \in Subjects, value \in StringInputs : SetString(s, value)
  \/ \E s \in Subjects, value \in BooleanInputs : SetBoolean(s, value)
  \/ \E s \in Subjects, value \in IntInputs : SetInt(s, value)
  \/ \E s \in Subjects, value \in FloatInputs : SetFloat(s, value)
  \/ \E d \in Subjects, arg \in Slots : SetScalar(d, arg, v[arg])
  \/ \E d \in Subjects, value \in TempValues : SetScalar(d, Temp, value)
  \/ \E s \in Subjects : ReleaseMap(s)
  \/ \E s \in Subjects : ReleaseList(s)
  \/ \E s \in Subjects : ReleaseString(s)
  \/ \E s \in Subjects : ReleaseScalar(s)

(* No selection set is being resolved. *)
Idle ==
  /\ selection = <<>>
  /\ launched = 0
  /\ finished = <<>>
  /\ slot = <<>>

(* The objects default-constructed, and no resolution. *)
InitIdle == Init /\ Idle

Spec == InitIdle /\ [][Next]_<<vars, rvars>>

(***************************************************************************)
(* Resolution of the sibling fields of one selection set.  selection is    *)
(* the names of the requested fields in their textual order.  The engine   *)
(* calls the getter of each field in that order (launched counts them);    *)
(* every getter returns a future, and the futures become ready in any      *)
(* order (finished lists the positions in the order of completion), each   *)
(* leaving its result in the slot of its position.  When every slot is     *)
(* filled the engine composes the output: a new Map, in slot 1 of the      *)
(* objects, to which it appends the fields by emplace_back(name, value),   *)
(* slot by slot.  A getter that fails leaves Null in its slot.             *)
(***************************************************************************)
MaxFields == 3

FieldNames == << "b", "a", "c", "d" >>

Fields == { FieldNames[i] : i \in 1..MaxFields }

Selections ==
  { s \in UNION { [ 1..n -> Fields ] : n \in 0..MaxFields } :
      \A i, j \in 1..Len(s) : s[i] = s[j] => i = j }

GetterResults == { ValueIntType(1), Value("Null") }

Output == 1

Ready(i) == \E k \in 1..Len(finished) : finished[k] = i

InitResolve ==
  /\ Init
  /\ selection \in Selections
  /\ launched = 0
  /\ finished = <<>>
  /\ slot = [ i \in 1..Len(selection) |-> <<>> ]

(* The output Map is under construction. *)
OwnsComposed ==
  type(v[Output]) = "Map" /\ ~IsNullPtr(v[Output]._map) /\ ~IsNullPtr(v[Output]._members)

(* The engine calls the getter of the next field. *)
Launch ==
  /\ launched < Len(selection)
  /\ launched' = launched + 1
  /\ UNCHANGED <<selection, finished, slot, vars>>

(* The future of field i becomes ready. *)
Complete(i, value) ==
  /\ i <= launched
  /\ ~Ready(i)
  /\ finished' = Append(finished, i)
  /\ slot' = [ slot EXCEPT ![i] = << value >> ]
  /\ UNCHANGED <<selection, launched, vars>>

Gathered ==
  /\ launched = Len(selection)
  /\ \A i \in 1..Len(selection) : Ready(i)

(* response::Value result(response::Type::Map) *)
BeginCompose ==
  /\ Gathered
  /\ type(v[Output]) = "Null"
  /\ ConstructType(Output, "Map")

(* result.emplace_back(std::move(name), std::move(value)) for the next     *)
(* slot.                                                                   *)
ComposeField(grow) ==
  /\ Gathered
  /\ OwnsComposed
  /\ Len(v[Output]._map[1]) < Len(selection)
  /\ LET k == Len(v[Output]._map[1]) + 1
         r == emplace_back_name(v[Output], selection[k], slot[k][1], grow)
     IN  /\ Step(Call("emplace_back(name)", Output, Temp), r, [ v EXCEPT ![Output] = r.self ])
         /\ appends' =
              IF r.outcome = "ok"
              THEN [ appends EXCEPT
                       ![Output] = Append(appends[Output], << selection[k], Content(slot[k][1]) >>) ]
              ELSE appends

NextResolve ==
  \/ Launch
  \/ \E i \in 1..Len(selection), value \in GetterResults : Complete(i, value)
  \/ BeginCompose
  \/ \E grow \in BOOLEAN : ComposeField(grow)

SpecResolve == InitResolve /\ [][NextResolve]_<<vars, rvars>>

(***************************************************************************)
(* Vocabulary of the properties.                                           *)
(***************************************************************************)
OwnsMap(value) ==
  value._type = "Map" /\ ~IsNullPtr(value._map) /\ ~IsNullPtr(value._members)

(* The (name, content) pairs of a Map, in the order get<MapType> gives. *)
EntriesOf(value) ==
  [ i \in 1..Len(value._map[1]) |-> << value._map[1][i][1], Content(value._map[1][i][2]) >> ]

NamePresent(value, name) ==
  OwnsMap(value) /\ \E i \in 1..Len(value._map[1]) : value._map[1][i][1] = name

Appended(s, name) == \E i \in 1..Len(appends[s]) : appends[s][i][1] = name

(* The values that may be handed as Value&& to a call on slot s. *)
Arguments(s) == TempValues \cup { v[t] : t \in Slots \ {s} }

ReleaseOps == {"release<MapType>", "release<ListType>", "release<StringType>", "release<ScalarType>"}
MoveOps == {"Value(Value&&)", "Value(const Value&)", "operator="}

(***************************************************************************)
(* C1.  On a Map that holds an entry called name, emplace_back(name,       *)
(* value) throws the duplicate-member error (std::runtime_error) whatever  *)
(* value is handed to it, and the failed call changes nothing: the object, *)
(* hence size(), the sequence get<MapType>() gives and find of every name, *)
(* is as before, and the argument has not been moved from.                 *)
(***************************************************************************)
C1_DuplicateAppendFails ==
  \A s \in Slots, name \in Names, grow \in BOOLEAN :
    \A value \in Arguments(s) :
      NamePresent(v[s], name) =>
        LET r == emplace_back_name(v[s], name, value, grow)
        IN  /\ r.outcome = "runtime_error"
            /\ r.value = value
            /\ size(r.self) = size(v[s])
            /\ get_MapType(r.self) = get_MapType(v[s])
            /\ \A n \in Names : find(r.self, n) = find(v[s], n)

(* A duplicate append has just failed on a Map of two entries. *)
C1_Witness ==
  /\ last.op = "emplace_back(name)"
  /\ outcome = "runtime_error"
  /\ OwnsMap(v[last.self])
  /\ Len(v[last.self]._map[1]) = 2

(***************************************************************************)
(* C2.  A Map that owns its entries enumerates, through get<MapType>(),    *)
(* exactly the successful appends that built them, in their order; and a   *)
(* value copy-constructed, move-constructed or move-assigned from such a   *)
(* Map enumerates the entries the Map had, in the same order.              *)
(***************************************************************************)
C2_InsertionOrderPreserved ==
  [][ /\ \A s \in Slots :
           OwnsMap(v'[s]) =>
             /\ get_MapType(v'[s]).outcome = "ok"
             /\ get_MapType(v'[s]).ret[1] = v'[s]._map[1]
             /\ EntriesOf(v'[s]) = appends'[s]
      /\ (last'.op \in MoveOps /\ outcome' = "ok" /\ OwnsMap(v[last'.arg])) =>
           /\ OwnsMap(v'[last'.self])
           /\ EntriesOf(v'[last'.self]) = EntriesOf(v[last'.arg]) ]_vars

(* A copy has just been made of a Map built by appending b and then a. *)
C2_Witness ==
  /\ last.op = "Value(const Value&)"
  /\ outcome = "ok"
  /\ OwnsMap(v[last.self])
  /\ Len(v[last.self]._map[1]) = 2
  /\ v[last.self]._map[1][1][1] = "b"
  /\ v[last.self]._map[1][2][1] = "a"
  /\ appends[last.arg] = EntriesOf(v[last.self])

(***************************************************************************)
(* C3.  The copy constructor, given a value of any kind, returns a copy    *)
(* with the kind and the content of the original at every depth and        *)
(* leaves the original as it was; and a later call on another object that  *)
(* does not take the original as its Value&& leaves the original as it is. *)
(***************************************************************************)
C3_CopyIsDeep ==
  [][ /\ last'.op = "Value(const Value&)" =>
           /\ outcome' = "ok"
           /\ type(v'[last'.self]) = type(v[last'.arg])
           /\ Content(v'[last'.self]) = Content(v[last'.arg])
           /\ v'[last'.arg] = v[last'.arg]
      /\ \A s \in Slots :
           (last'.self # s /\ last'.arg # s) => v'[s] = v[s] ]_vars

(***************************************************************************)
(* C4.  target = std::move(source), for two distinct objects, leaves       *)
(* target with the kind and the whole payload source had, whatever target  *)
(* held, and leaves source with type() Null.                               *)
(***************************************************************************)
C4_MoveAssignTransfers ==
  [][ last'.op = "operator=" =>
        /\ outcome' = "ok"
        /\ type(v'[last'.self]) = type(v[last'.arg])
        /\ Content(v'[last'.self]) = Content(v[last'.arg])
        /\ v'[last'.self]._members = v[last'.arg]._members
        /\ type(v'[last'.arg]) = "Null" ]_vars

(* A Map of one entry has just been move-assigned. *)
C4_Witness ==
  /\ last.op = "operator="
  /\ OwnsMap(v[last.self])
  /\ Len(v[last.self]._map[1]) = 1
  /\ type(v[last.arg]) = "Null"

(***************************************************************************)
(* C5.  After a move construction from the object of a slot, by            *)
(* Value(Value&&) or by a successful emplace_back that was handed the      *)
(* object, the source has type() Null and size, reserve, emplace_back,     *)
(* find, get<T>, set<T> and release<T> on it throw the kind-mismatch error *)
(* (std::logic_error).                                                     *)
(***************************************************************************)
KindMismatch(value) ==
  /\ size(value).outcome = "logic_error"
  /\ \A count \in ReserveCounts : reserve(value, count).outcome = "logic_error"
  /\ \A name \in Names, arg \in TempValues, grow \in BOOLEAN :
       emplace_back_name(value, name, arg, grow).outcome = "logic_error"
  /\ \A arg \in TempValues, grow \in BOOLEAN :
       emplace_back_value(value, arg, grow).outcome = "logic_error"
  /\ \A name \in Names : find(value, name).outcome = "logic_error"
  /\ get_MapType(value).outcome = "logic_error"
  /\ get_ListType(value).outcome = "logic_error"
  /\ get_StringType(value).outcome = "logic_error"
  /\ get_BooleanType(value).outcome = "logic_error"
  /\ get_IntType(value).outcome = "logic_error"
  /\ get_FloatType(value).outcome = "logic_error"
  /\ get_ScalarType(value).outcome = "logic_error"
  /\ \A x \in StringInputs : set_StringType(value, x).outcome = "logic_error"
  /\ \A x \in BooleanInputs : set_BooleanType(value, x).outcome = "logic_error"
  /\ \A x \in IntInputs : set_IntType(value, x).outcome = "logic_error"
  /\ \A x \in FloatInputs : set_FloatType(value, x).outcome = "logic_error"
  /\ \A arg \in TempValues : set_ScalarType(value, arg).outcome = "logic_error"
  /\ release_MapType(value).outcome = "logic_error"
  /\ release_ListType(value).outcome = "logic_error"
  /\ release_StringType(value, "").outcome = "logic_error"
  /\ release_ScalarType(value).outcome = "logic_error"

C5_MovedFromIsNull ==
  ( \/ last.op = "Value(Value&&)"
    \/ /\ last.op \in {"emplace_back(name)", "emplace_back(value)"}
       /\ outcome = "ok"
       /\ last.arg \in Slots )
  => /\ type(v[last.arg]) = "Null"
     /\ KindMismatch(v[last.arg])

(***************************************************************************)
(* C6.  A method called on a value of a kind it does not serve throws      *)
(* std::logic_error and leaves the value, and the Value&& handed to it, as *)
(* they were: reserve and size serve Map and List; emplace_back(name,      *)
(* value), find and operator[](name) serve Map; emplace_back(value) and    *)
(* operator[](index) serve List; get<T>, set<T> and release<T> serve the   *)
(* kind of T, the StringType ones both String and EnumValue, which they    *)
(* accept.                                                                 *)
(***************************************************************************)
Refused(value, r) == r.outcome = "logic_error" /\ r.self = value

RefusedMove(value, arg, r) == Refused(value, r) /\ r.value = arg

C6_WrongKindFails ==
  \A s \in Slots :
    LET x == v[s]
    IN  /\ type(x) \notin {"Map", "List"} =>
             /\ Refused(x, size(x))
             /\ \A count \in ReserveCounts : Refused(x, reserve(x, count))
        /\ type(x) # "Map" =>
             /\ \A name \in Names, grow \in BOOLEAN : \A arg \in Arguments(s) :
                  RefusedMove(x, arg, emplace_back_name(x, name, arg, grow))
             /\ \A name \in Names : Refused(x, find(x, name))
             /\ \A name \in Names : Refused(x, operator_index_name(x, name))
             /\ Refused(x, get_MapType(x))
             /\ Refused(x, release_MapType(x))
        /\ type(x) # "List" =>
             /\ \A grow \in BOOLEAN : \A arg \in Arguments(s) :
                  RefusedMove(x, arg, emplace_back_value(x, arg, grow))
             /\ \A index \in IndexInputs : Refused(x, operator_index_pos(x, index))
             /\ Refused(x, get_ListType(x))
             /\ Refused(x, release_ListType(x))
        /\ type(x) \notin {"String", "EnumValue"} =>
             /\ Refused(x, get_StringType(x))
             /\ \A value \in StringInputs : Refused(x, set_StringType(x, value))
             /\ Refused(x, release_StringType(x, ""))
        /\ (type(x) \in {"String", "EnumValue"} /\ ~IsNullPtr(x._string)) =>
             /\ get_StringType(x).outcome = "ok"
             /\ \A value \in StringInputs : set_StringType(x, value).outcome = "ok"
             /\ \A left \in MovedFromString(x._string[1]) :
                  release_StringType(x, left).outcome = "ok"
        /\ type(x) # "Boolean" =>
             /\ Refused(x, get_BooleanType(x))
             /\ \A value \in BooleanInputs : Refused(x, set_BooleanType(x, value))
        /\ type(x) # "Int" =>
             /\ Refused(x, get_IntType(x))
             /\ \A value \in IntInputs : Refused(x, set_IntType(x, value))
        /\ type(x) # "Float" =>
             /\ Refused(x, get_FloatType(x))
             /\ \A value \in FloatInputs : Refused(x, set_FloatType(x, value))
        /\ type(x) # "Scalar" =>
             /\ Refused(x, get_ScalarType(x))
             /\ \A arg \in Arguments(s) : RefusedMove(x, arg, set_ScalarType(x, arg))
             /\ Refused(x, release_ScalarType(x))

(* release<MapType> has just been refused by an EnumValue that holds text. *)
C6_Witness ==
  /\ last.op = "release<MapType>"
  /\ outcome = "logic_error"
  /\ type(v[last.self]) = "EnumValue"
  /\ v[last.self]._string = << "x" >>

(***************************************************************************)
(* C7.  What a successful release<T>() returns is the payload the value    *)
(* held when it was called, and a value of the same kind built from what   *)
(* was returned (the entries appended in their order to a new Map or List, *)
(* the text given to a new String or EnumValue, the value set in a new     *)
(* Scalar) has the content the value had, at every depth.                  *)
(***************************************************************************)
RECURSIVE RebuildMap(_, _)
RebuildMap(entries, n) ==
  IF n = 0 THEN Value("Map")
  ELSE emplace_back_name(RebuildMap(entries, n - 1), entries[n][1], entries[n][2], FALSE).self

RECURSIVE RebuildList(_, _)
RebuildList(values, n) ==
  IF n = 0 THEN Value("List")
  ELSE emplace_back_value(RebuildList(values, n - 1), values[n], FALSE).self

Rebuild(t, payload) ==
  CASE t = "Map" -> RebuildMap(payload, Len(payload))
    [] t = "List" -> RebuildList(payload, Len(payload))
    [] t = "String" -> ValueStringType(payload)
    [] t = "EnumValue" -> set_StringType(Value("EnumValue"), payload).self
    [] t = "Scalar" -> set_ScalarType(Value("Scalar"), payload).self

Held(value) ==
  CASE value._type = "Map" -> value._map
    [] value._type = "List" -> value._list
    [] value._type \in {"String", "EnumValue"} -> value._string
    [] value._type = "Scalar" -> value._scalar

C7_ReleaseRoundTrip ==
  [][ (last'.op \in ReleaseOps /\ outcome' = "ok") =>
        /\ ret' = Held(v[last'.self])
        /\ Content(Rebuild(type(v[last'.self]), ret'[1])) = Content(v[last'.self]) ]_vars

(* release<MapType> has just returned an entry whose value is a Map with   *)
(* an entry of its own.                                                    *)
C7_Witness ==
  /\ last.op = "release<MapType>"
  /\ outcome = "ok"
  /\ Len(ret[1]) = 1
  /\ OwnsMap(ret[1][1][2])
  /\ Len(ret[1][1][2]._map[1]) = 1

(***************************************************************************)
(* C8.  After a successful release<T>() the object has the kind of T and   *)
(* its methods complete without a fault: a released Map has size() 0,      *)
(* finds no name and takes an entry of any name; a released List, String,  *)
(* EnumValue or Scalar answers size, get, set and operator[](index), and   *)
(* it and the value a Scalar still holds can be copied.                    *)
(***************************************************************************)
C8_ReleasedStaysValid ==
  (last.op \in ReleaseOps /\ outcome = "ok") =>
    LET x == v[last.self]
    IN  /\ last.op = "release<MapType>" =>
             /\ type(x) = "Map"
             /\ size(x) = Done(x, << 0 >>)
             /\ \A name \in Names : find(x, name) = Done(x, << 0 >>)
             /\ \A name \in Names, arg \in TempValues, grow \in BOOLEAN :
                  emplace_back_name(x, name, arg, grow).outcome = "ok"
             /\ ~CopyFaults(x)
        /\ last.op = "release<ListType>" =>
             /\ type(x) = "List"
             /\ size(x).outcome = "ok"
             /\ get_ListType(x).outcome = "ok"
             /\ \A index \in IndexInputs : operator_index_pos(x, index).outcome # "fault"
             /\ \A arg \in TempValues, grow \in BOOLEAN :
                  emplace_back_value(x, arg, grow).outcome = "ok"
             /\ ~CopyFaults(x)
        /\ last.op = "release<StringType>" =>
             /\ type(x) \in {"String", "EnumValue"}
             /\ get_StringType(x).outcome = "ok"
             /\ \A value \in StringInputs : set_StringType(x, value).outcome = "ok"
             /\ ~CopyFaults(x)
        /\ last.op = "release<ScalarType>" =>
             /\ type(x) = "Scalar"
             /\ get_ScalarType(x).outcome = "ok"
             /\ \A arg \in TempValues : set_ScalarType(x, arg).outcome = "ok"
             /\ ~CopyFaults(get_ScalarType(x).ret[1])
             /\ ~CopyFaults(x)

(***************************************************************************)
(* C9.  On every Map, for every name: if the name was appended             *)
(* successfully to the entries the Map now has, find(name) returns the     *)
(* entry of that name with the value appended under it and                 *)
(* operator[](name) returns that value; if not, find(name) returns cend()  *)
(* without an error and operator[](name) throws the missing-member error   *)
(* (std::runtime_error).                                                   *)
(***************************************************************************)
C9_FindAndLookupAgree ==
  \A s \in Slots :
    type(v[s]) = "Map" =>
      \A name \in Names :
        LET itr == find(v[s], name)
            member == operator_index_name(v[s], name)
        IN  /\ itr.outcome = "ok"
            /\ IF Appended(s, name)
               THEN /\ itr.ret[1] < Len(v[s]._map[1])
                    /\ v[s]._map[1][itr.ret[1] + 1][1] = name
                    /\ << name, Content(v[s]._map[1][itr.ret[1] + 1][2]) >>
                         = appends[s][CHOOSE i \in 1..Len(appends[s]) : appends[s][i][1] = name]
                    /\ member = Done(v[s], << v[s]._map[1][itr.ret[1] + 1][2] >>)
               ELSE /\ itr.ret[1] = Len(v[s]._map[1])
                    /\ member.outcome = "runtime_error"

(***************************************************************************)
(* C10, as stated: what size() of a Map returns is the number of           *)
(* emplace_back(name, value) calls on that object that succeeded.  Step by *)
(* step: on a Map just constructed empty size() returns 0; and while the   *)
(* object of a slot stays the same Map (no constructor and no move         *)
(* assignment puts another in its place), its size() goes up by one with a *)
(* successful emplace_back(name, value) on it and is left as it is by      *)
(* every other call, a failed append among them.                           *)
(***************************************************************************)
ReplacingOps ==
  {"Value(Type)", "Value(StringType)", "Value(BooleanType)", "Value(IntType)",
   "Value(FloatType)", "Value(Value&&)", "Value(const Value&)", "operator="}

ConstructorOps ==
  {"Value(Type)", "Value(StringType)", "Value(BooleanType)", "Value(IntType)",
   "Value(FloatType)", "Value(Value&&)", "Value(const Value&)"}

C11_KindChangesOnlyByMoveAssign ==
  [][ /\ \A s \in Slots :
           type(v'[s]) # type(v[s]) =>
             \/ last'.op \in ConstructorOps /\ last'.self = s
             \/ last'.op = "operator=" /\ s \in {last'.self, last'.arg}
             \/ last'.op = "set<ScalarType>" /\ last'.arg = s /\ outcome' = "ok"
      /\ (last'.op = "release<ScalarType>" /\ outcome' = "ok") =>
           type(v'[last'.self]._scalar[1]) = type(ret'[1]) ]_vars

(* set<StringType> has just given a text to an EnumValue. *)
C11_Witness ==
  /\ last.op = "set<StringType>"
  /\ outcome = "ok"
  /\ type(v[last.self]) = "EnumValue"
  /\ v[last.self]._string = << "x" >>

(***************************************************************************)
(* C12.  When the sibling fields of a selection set are resolved through   *)
(* their futures, the output Map lists the fields in the textual order of  *)
(* the selection, each with the result of its own getter, whatever the     *)
(* order in which the futures became ready; while it is composed, the Map  *)
(* lists the first fields of the selection in that order.                  *)
(***************************************************************************)
Composed == Gathered /\ OwnsComposed /\ Len(v[Output]._map[1]) = Len(selection)

IndexAgrees(value) ==
  /\ IsNullPtr(value._members) = IsNullPtr(value._map)
  /\ ~IsNullPtr(value._map) =>
       /\ Cardinality(value._members[1]) = Len(value._map[1])
       /\ \A i \in 1..Len(value._map[1]) :
            MembersFind(value._members[1], value._map[1][i][1])
              = { << value._map[1][i][1], i - 1 >> }

RECURSIVE MapsAgree(_)
MapsAgree(value) ==
  /\ type(value) = "Map" => IndexAgrees(value)
  /\ IsNullPtr(value._map) \/ \A i \in 1..Len(value._map[1]) : MapsAgree(value._map[1][i][2])
  /\ IsNullPtr(value._list) \/ \A i \in 1..Len(value._list[1]) : MapsAgree(value._list[1][i])
  /\ IsNullPtr(value._scalar) \/ MapsAgree(value._scalar[1])

C13_IndexMatchesSequence == \A s \in Slots : MapsAgree(v[s])

(* A Map to which b and then a were appended, after a failed append. *)
C13_Witness ==
  /\ last.op = "emplace_back(name)"
  /\ outcome = "runtime_error"
  /\ OwnsMap(v[last.self])
  /\ v[last.self]._members[1] = { << "b", 0 >>, << "a", 1 >> }
  /\ v[last.self]._map[1][1][1] = "b"
  /\ v[last.self]._map[1][2][1] = "a"

(***************************************************************************)
(* C14.  Every value, at every depth of every object, has the payload of   *)
(* the kind type() reports: a Map its _map and its _members, a List its    *)
(* _list, a String or EnumValue its _string, a Scalar its _scalar; and no  *)
(* call dereferences a null pointer.                                       *)
(***************************************************************************)
RECURSIVE PayloadPresent(_)
PayloadPresent(value) ==
  /\ type(value) = "Map" => ~IsNullPtr(value._map) /\ ~IsNullPtr(value._members)
  /\ type(value) = "List" => ~IsNullPtr(value._list)
  /\ type(value) \in {"String", "EnumValue"} => ~IsNullPtr(value._string)
  /\ type(value) = "Scalar" => ~IsNullPtr(value._scalar)
  /\ IsNullPtr(value._map) \/ \A i \in 1..Len(value._map[1]) : PayloadPresent(value._map[1][i][2])
  /\ IsNullPtr(value._list) \/ \A i \in 1..Len(value._list[1]) : PayloadPresent(value._list[1][i])
  /\ IsNullPtr(value._scalar) \/ PayloadPresent(value._scalar[1])

C14_KindHasItsPayload ==
  /\ \A s \in Slots : PayloadPresent(v[s])
  /\ outcome # "fault"

====
